---- MODULE Spec2Model ----
(***************************************************************************)
(* go-maddr-filter: the Filters table of allow/deny net.IPNet rules        *)
(* (src/filter.go).  The table is an ordered slice of filterEntry          *)
(* {f *net.IPNet, reject bool} plus the exported RejectByDefault flag.     *)
(*                                                                         *)
(* IP addresses are AddrBits wide (the code handles 32 and 128 bit ones    *)
(* alike: net.IPNet.Contains and String do not depend on the width).       *)
(* A net.IPNet is [IP, ones]: the base address and the mask length.        *)
(* Slice indices are Go's (0-based); a TLA+ sequence position is idx + 1.  *)
(***************************************************************************)
EXTENDS Integers, Sequences, FiniteSets, TLC

VARIABLES
    filters,          \* fs.filters: sequence of [f, reject]
    RejectByDefault,  \* fs.RejectByDefault
    op,               \* the last call made on the table: [name, f, a]
    pre,              \* the table as it was when that call started
    blocked,          \* what the last AddrBlocked returned
    out,              \* the slice the last Filters()/AllowFilters() returned
    holding,          \* whether the caller keeps a returned slice across later calls
    mu,               \* fs.mu: [w, r], the goroutine write-holding it (0: none)
                      \* and the set of goroutines read-holding it
    proc              \* per goroutine: the call it is in and where in it

vars == <<filters, RejectByDefault, op, pre, blocked, out, holding, mu, proc>>

----------------------------------------------------------------------------
(* Bounds *)

AddrBits == 1

MaxRules == 2

NProcs == 2

----------------------------------------------------------------------------
(* Addresses, networks, multiaddrs *)

IPs == 0 .. (2 ^ AddrBits - 1)

Ones == 0 .. AddrBits

\* ip & CIDRMask(ones, AddrBits)
Mask(ip, ones) == (ip \div (2 ^ (AddrBits - ones))) * (2 ^ (AddrBits - ones))

\* The CIDR texts a caller parses, such as "0.1.2.3/24": any address, any length.
CIDRs == [IP : IPs, ones : Ones]

\* _, ipnet, _ := net.ParseCIDR(cidr): the network's base address is masked.
ParseCIDR(cidr) == [IP |-> Mask(cidr.IP, cidr.ones), ones |-> cidr.ones]

\* The *net.IPNet values handed to the table.
Nets == {ParseCIDR(c) : c \in CIDRs}

\* (*net.IPNet).String(): the text "<IP>/<ones>", here its two components.
String(n) == <<n.IP, n.ones>>

\* (*net.IPNet).Contains(ip): both sides are masked before they are compared.
Contains(n, ip) == Mask(ip, n.ones) = Mask(n.IP, n.ones)

\* A ma.Multiaddr by what AddrBlocked's parsing makes of it:
\*   "empty": ma.Split returns no component;
\*   "dns":   the first component is no IP protocol, manet.ToNetAddr fails;
\*   "zone":  ToNetAddr succeeds but net.ParseIP rejects the text (an IPv6 zone);
\*   "ip":    parses to the IP address ip.
Maddrs ==
    [kind : {"ip"}, ip : IPs]
        \cup {[kind |-> k, ip |-> 0] : k \in {"empty", "dns", "zone"}}

NoNet == [IP |-> 0, ones |-> 0]

NoAddr == [kind |-> "empty", ip |-> 0]

NoOut == [kind |-> "none", backing |-> "own", elems |-> <<>>]

\* The goroutines calling into the table.
Procs == 1 .. NProcs

\* A goroutine that is in no call.
Idle ==
    [pc |-> "idle", call |-> "none", f |-> NoNet, a |-> NoAddr,
     idx |-> -1, d |-> FALSE, res |-> FALSE, lst |-> <<>>]

\* The zero sync.RWMutex.
Unlocked == [w |-> 0, r |-> {}, q |-> {}]

----------------------------------------------------------------------------
(* The table's operations, as functions of the rule slice *)

\* A constructor that starts out rejecting by default.
NewFiltersRejecting == [RejectByDefault |-> TRUE, filters |-> <<>>]

NewFilters == [RejectByDefault |-> FALSE, filters |-> <<>>]

RECURSIVE findFrom(_, _, _)
findFrom(fl, ffs, idx) ==
    IF idx >= Len(fl) THEN -1
    ELSE IF String(fl[idx + 1].f) = ffs THEN idx
    ELSE findFrom(fl, ffs, idx + 1)

find(fl, ff) == findFrom(fl, String(ff), 0)

SetReject(fl, idx, r) == [fl EXCEPT ![idx + 1].reject = r]

\* An insertion that appends whether or not the network is already stored.
AddDialFilterAppend(fl, f) == Append(fl, [f |-> f, reject |-> TRUE])

\* An insertion that puts a new rule in front of the stored ones.
AddDialFilterPrepend(fl, f) ==
    LET idx == find(fl, f)
    IN  IF idx # -1 THEN SetReject(fl, idx, TRUE)
        ELSE <<[f |-> f, reject |-> TRUE]>> \o fl

AddDialFilter(fl, f) ==
    LET idx == find(fl, f)
    IN  IF idx # -1 THEN SetReject(fl, idx, TRUE)
        ELSE Append(fl, [f |-> f, reject |-> TRUE])

\* An insertion that drops the stored rule for the network and appends a new one.
AddAllowFilterMoveToEnd(fl, f) ==
    LET idx == find(fl, f)
        rest == IF idx # -1
                THEN SubSeq(fl, 1, idx) \o SubSeq(fl, idx + 2, Len(fl))
                ELSE fl
    IN  Append(rest, [f |-> f, reject |-> FALSE])

\* An insertion that appends a second allow rule for a network stored as allow
\* already.
AddAllowFilterAgain(fl, f) ==
    LET idx == find(fl, f)
    IN  IF idx # -1 /\ fl[idx + 1].reject THEN SetReject(fl, idx, FALSE)
        ELSE Append(fl, [f |-> f, reject |-> FALSE])

AddAllowFilter(fl, f) ==
    LET idx == find(fl, f)
    IN  IF idx # -1 THEN SetReject(fl, idx, FALSE)
        ELSE Append(fl, [f |-> f, reject |-> FALSE])

\* A cut that keeps fs.filters[:idx] only.
CutTail(fl, idx) == SubSeq(fl, 1, idx)

\* append(fs.filters[:idx], fs.filters[idx+1:]...)
Cut(fl, idx) == SubSeq(fl, 1, idx) \o SubSeq(fl, idx + 2, Len(fl))

\* A removal that deletes the rule found only when it is a reject rule.
RemoveRejectOnly(fl, ff) ==
    LET idx == find(fl, ff)
    IN  IF idx # -1 /\ fl[idx + 1].reject THEN Cut(fl, idx) ELSE fl

\* A removal that looks for the first rule whose network contains ff's base
\* address instead of the rule with ff's text.
RECURSIVE findCovering(_, _, _)
findCovering(fl, ff, idx) ==
    IF idx >= Len(fl) THEN -1
    ELSE IF Contains(fl[idx + 1].f, ff.IP) THEN idx
    ELSE findCovering(fl, ff, idx + 1)

RemoveCovering(fl, ff) ==
    LET idx == findCovering(fl, ff, 0)
    IN  IF idx # -1 THEN Cut(fl, idx) ELSE fl

\* A Remove that, when ff is stored, drops the first rule of the table.
RemoveFromFront(fl, ff) ==
    IF find(fl, ff) # -1 THEN Tail(fl) ELSE fl

Remove(fl, ff) ==
    LET idx == find(fl, ff)
    IN  IF idx # -1 THEN Cut(fl, idx) ELSE fl

\* A scan that returns at the first rule containing netip.
RECURSIVE scanFirstMatch(_, _, _, _)
scanFirstMatch(fl, i, reject, netip) ==
    IF i > Len(fl) THEN reject
    ELSE IF Contains(fl[i].f, netip) THEN fl[i].reject
    ELSE scanFirstMatch(fl, i + 1, reject, netip)

RECURSIVE scan(_, _, _, _)
scan(fl, i, reject, netip) ==
    IF i > Len(fl) THEN reject
    ELSE scan(fl, i + 1,
              IF Contains(fl[i].f, netip) THEN fl[i].reject ELSE reject,
              netip)

\* An evaluation that answers "not blocked" whenever the address does not parse.
AddrBlockedParseFalse(fs, a) ==
    IF a.kind = "empty" THEN FALSE
    ELSE IF a.kind = "dns" THEN FALSE
    ELSE IF a.kind = "zone" THEN FALSE
    ELSE scan(fs.filters, 1, fs.RejectByDefault, a.ip)

AddrBlocked(fs, a) ==
    IF a.kind = "empty" THEN fs.RejectByDefault
    ELSE IF a.kind = "dns" THEN fs.RejectByDefault
    ELSE IF a.kind = "zone" THEN fs.RejectByDefault
    ELSE scan(fs.filters, 1, fs.RejectByDefault, a.ip)

RECURSIVE collect(_, _, _, _)
collect(fl, i, r, acc) ==
    IF i > Len(fl) THEN acc
    ELSE collect(fl, i + 1, r,
                 IF fl[i].reject = r THEN Append(acc, fl[i].f) ELSE acc)

\* A listing of every rule's network, whatever its action.
RECURSIVE collectAll(_, _, _)
collectAll(fl, i, acc) ==
    IF i > Len(fl) THEN acc ELSE collectAll(fl, i + 1, Append(acc, fl[i].f))

FiltersAll(fl) ==
    [kind |-> "deny", backing |-> "own", elems |-> collectAll(fl, 1, <<>>)]

\* A listing that hands out a view of the table instead of a slice of its own.
FiltersView(fl) ==
    [kind |-> "deny", backing |-> "table", elems |-> collect(fl, 1, TRUE, <<>>)]

\* var out []*net.IPNet; out = append(out, ff.f): a slice with an array of its own.
Filters(fl) ==
    [kind |-> "deny", backing |-> "own", elems |-> collect(fl, 1, TRUE, <<>>)]

AllowFilters(fl) ==
    [kind |-> "allow", backing |-> "own", elems |-> collect(fl, 1, FALSE, <<>>)]

\* What the holder of a returned slice reads from it when the table is fl.
Contents(o, fl) ==
    IF o.backing = "own" THEN o.elems
    ELSE collect(fl, 1, o.kind = "deny", <<>>)

----------------------------------------------------------------------------
(* Calls *)

Table == [filters |-> filters, RejectByDefault |-> RejectByDefault]

Kept == IF holding THEN out ELSE NoOut

CallAddDialFilter(f) ==
    /\ Len(filters) < MaxRules \/ find(filters, f) # -1
    /\ filters' = AddDialFilter(filters, f)
    /\ op' = [name |-> "AddDialFilter", f |-> f, a |-> NoAddr]
    /\ pre' = Table
    /\ blocked' = FALSE
    /\ out' = Kept
    /\ UNCHANGED <<RejectByDefault, holding, mu, proc>>

CallAddAllowFilter(f) ==
    /\ Len(filters) < MaxRules \/ find(filters, f) # -1
    /\ filters' = AddAllowFilter(filters, f)
    /\ op' = [name |-> "AddAllowFilter", f |-> f, a |-> NoAddr]
    /\ pre' = Table
    /\ blocked' = FALSE
    /\ out' = Kept
    /\ UNCHANGED <<RejectByDefault, holding, mu, proc>>

CallRemove(ff) ==
    /\ filters' = Remove(filters, ff)
    /\ op' = [name |-> "Remove", f |-> ff, a |-> NoAddr]
    /\ pre' = Table
    /\ blocked' = FALSE
    /\ out' = Kept
    /\ UNCHANGED <<RejectByDefault, holding, mu, proc>>

\* f.RejectByDefault = b: the field is exported and the owner assigns it.
SetRejectByDefault(b) ==
    /\ RejectByDefault' = b
    /\ op' = [name |-> "SetRejectByDefault", f |-> NoNet, a |-> NoAddr]
    /\ pre' = Table
    /\ blocked' = FALSE
    /\ out' = Kept
    /\ UNCHANGED <<filters, holding, mu, proc>>

\* An evaluation that keeps its running verdict in the RejectByDefault field.
CallAddrBlockedInField(a) ==
    /\ blocked' = AddrBlocked(Table, a)
    /\ RejectByDefault' = AddrBlocked(Table, a)
    /\ op' = [name |-> "AddrBlocked", f |-> NoNet, a |-> a]
    /\ pre' = Table
    /\ out' = Kept
    /\ UNCHANGED <<filters, holding, mu, proc>>

CallAddrBlocked(a) ==
    /\ blocked' = AddrBlocked(Table, a)
    /\ op' = [name |-> "AddrBlocked", f |-> NoNet, a |-> a]
    /\ pre' = Table
    /\ out' = Kept
    /\ UNCHANGED <<filters, RejectByDefault, holding, mu, proc>>

CallFilters ==
    /\ out' = Filters(filters)
    /\ op' = [name |-> "Filters", f |-> NoNet, a |-> NoAddr]
    /\ pre' = Table
    /\ blocked' = FALSE
    /\ UNCHANGED <<filters, RejectByDefault, holding, mu, proc>>

CallAllowFilters ==
    /\ out' = AllowFilters(filters)
    /\ op' = [name |-> "AllowFilters", f |-> NoNet, a |-> NoAddr]
    /\ pre' = Table
    /\ blocked' = FALSE
    /\ UNCHANGED <<filters, RejectByDefault, holding, mu, proc>>

InitTable(fs, h, how) ==
    /\ filters = fs.filters
    /\ RejectByDefault = fs.RejectByDefault
    /\ op = [name |-> how, f |-> NoNet, a |-> NoAddr]
    /\ pre = fs
    /\ blocked = FALSE
    /\ out = NoOut
    /\ holding = h
    /\ mu = Unlocked
    /\ proc = [p \in Procs |-> Idle]

Init == InitTable(NewFilters, FALSE, "NewFilters")

Next ==
    \/ \E c \in CIDRs : CallAddDialFilter(ParseCIDR(c))
    \/ \E c \in CIDRs : CallAddAllowFilter(ParseCIDR(c))
    \/ \E c \in CIDRs : CallRemove(ParseCIDR(c))
    \/ \E b \in BOOLEAN : SetRejectByDefault(b)
    \/ \E a \in Maddrs : CallAddrBlocked(a)
    \/ CallFilters
    \/ CallAllowFilters

Spec == Init /\ [][Next]_vars

\* The caller keeps the slices Filters() and AllowFilters() return.
InitHeld == InitTable(NewFilters, TRUE, "NewFilters")

SpecHeld == InitHeld /\ [][Next]_vars

\* A table built directly, as code of the package can (&Filters{filters: ...}):
\* any rule slice, several rules for one network included.
Entries == [f : Nets, reject : BOOLEAN]

InitLegacy ==
    \E n \in 0 .. MaxRules : \E fl \in [1 .. n -> Entries] : \E b \in BOOLEAN :
        InitTable([RejectByDefault |-> b, filters |-> fl], FALSE, "literal")

SpecLegacy == InitLegacy /\ [][Next]_vars

----------------------------------------------------------------------------
(* Concurrent calls: each goroutine's call in the steps at which other       *)
(* goroutines can observe or disturb it                                      *)

seqvars == <<op, pre, blocked, out, holding>>

Adds == {"AddDialFilter", "AddAllowFilter"}

Set(p, rec) == proc' = [proc EXCEPT ![p] = rec]

Goto(p, label) == Set(p, [proc[p] EXCEPT !.pc = label])

\* func AddDialFilter / AddAllowFilter / Remove is entered; next is fs.mu.Lock().
StartWrite(p, call, f) ==
    /\ proc[p].pc = "idle"
    /\ call \in Adds => (Len(filters) < MaxRules \/ find(filters, f) # -1)
    /\ Set(p, [Idle EXCEPT !.pc = "Lock", !.call = call, !.f = f])
    /\ UNCHANGED <<filters, RejectByDefault, mu, seqvars>>

\* AddDenyFilter only calls AddDialFilter.
StartAddDenyFilter(p, f) == StartWrite(p, "AddDialFilter", f)

\* func AddrBlocked is entered; next is the parsing of a.
StartAddrBlocked(p, a) ==
    /\ proc[p].pc = "idle"
    /\ Set(p, [Idle EXCEPT !.pc = "parse", !.call = "AddrBlocked", !.a = a])
    /\ UNCHANGED <<filters, RejectByDefault, mu, seqvars>>

\* func Filters / AllowFilters is entered; next is fs.mu.RLock().
StartList(p, call) ==
    /\ proc[p].pc = "idle"
    /\ Set(p, [Idle EXCEPT !.pc = "RLock", !.call = call])
    /\ UNCHANGED <<filters, RejectByDefault, mu, seqvars>>

\* RejectFilters only calls Filters.
StartRejectFilters(p) == StartList(p, "Filters")

\* fs.mu.Lock(), first half: waits for the writers before it; from here on
\* RLock makes new readers wait.
DoLock(p) ==
    /\ proc[p].pc = "Lock"
    /\ mu.w = 0
    /\ mu' = [mu EXCEPT !.w = p]
    /\ Goto(p, "drain")
    /\ UNCHANGED <<filters, RejectByDefault, seqvars>>

DoDrainNoWait(p) ==
    /\ proc[p].pc = "drain"
    /\ Goto(p, "body")
    /\ UNCHANGED <<filters, RejectByDefault, mu, seqvars>>

\* fs.mu.Lock(), second half: waits until the readers that hold the lock
\* have released it.
DoDrain(p) ==
    /\ proc[p].pc = "drain"
    /\ mu.r = {}
    /\ Goto(p, "body")
    /\ UNCHANGED <<filters, RejectByDefault, mu, seqvars>>

\* The body of AddDialFilter / AddAllowFilter: find, then one store.
AddBody(p) ==
    /\ proc[p].pc = "body"
    /\ proc[p].call \in Adds
    /\ filters' = IF proc[p].call = "AddDialFilter"
                  THEN AddDialFilter(filters, proc[p].f)
                  ELSE AddAllowFilter(filters, proc[p].f)
    /\ Goto(p, "Unlock")
    /\ UNCHANGED <<RejectByDefault, mu, seqvars>>

\* The array after append(fs.filters[:idx], fs.filters[idx+1:]...) has moved
\* the tail down in place, read through the header fs.filters still holds.
Shifted(fl, idx) == Cut(fl, idx) \o <<fl[Len(fl)]>>

\* Remove whose lookup takes fs.mu itself, as an exported Find would.
RemoveFindLocking(p) ==
    /\ proc[p].pc = "body"
    /\ proc[p].call = "Remove"
    /\ mu.w = 0
    /\ Goto(p, "Unlock")
    /\ UNCHANGED <<filters, RejectByDefault, mu, seqvars>>

\* Remove: idx := fs.find(ff), and when found the in-place move of append.
RemoveFind(p) ==
    /\ proc[p].pc = "body"
    /\ proc[p].call = "Remove"
    /\ LET idx == find(filters, proc[p].f)
       IN  IF idx # -1
           THEN /\ filters' = Shifted(filters, idx)
                /\ Set(p, [proc[p] EXCEPT !.pc = "store", !.idx = idx])
           ELSE /\ Goto(p, "Unlock")
                /\ UNCHANGED filters
    /\ UNCHANGED <<RejectByDefault, mu, seqvars>>

\* Remove: fs.filters = <the slice append returned>, one element shorter.
RemoveStore(p) ==
    /\ proc[p].pc = "store"
    /\ filters' = SubSeq(filters, 1, Len(filters) - 1)
    /\ Goto(p, "Unlock")
    /\ UNCHANGED <<RejectByDefault, mu, seqvars>>

\* defer fs.mu.Unlock(), and the return: the readers that waited for this
\* writer hold the lock from here on.
DoUnlock(p) ==
    /\ proc[p].pc = "Unlock"
    /\ mu' = [w |-> 0, r |-> mu.q, q |-> {}]
    /\ Set(p, Idle)
    /\ UNCHANGED <<filters, RejectByDefault, seqvars>>

\* AddrBlocked's parsing: an address that does not parse returns
\* fs.RejectByDefault at once; fs.mu has not been touched.
Parse(p) ==
    /\ proc[p].pc = "parse"
    /\ IF proc[p].a.kind # "ip"
       THEN Set(p, [proc[p] EXCEPT !.pc = "return",
                                   !.d = RejectByDefault,
                                   !.res = RejectByDefault])
       ELSE Goto(p, "RLock")
    /\ UNCHANGED <<filters, RejectByDefault, mu, seqvars>>

\* The return of AddrBlocked for an address that did not parse.
Return(p) ==
    /\ proc[p].pc = "return"
    /\ Set(p, Idle)
    /\ UNCHANGED <<filters, RejectByDefault, mu, seqvars>>

\* Where a reader goes on once it holds the lock.
Critical(p) == IF proc[p].call = "AddrBlocked" THEN "scan" ELSE "list"

DoRLockNoWait(p) ==
    /\ proc[p].pc = "RLock"
    /\ mu' = [mu EXCEPT !.r = @ \cup {p}]
    /\ Goto(p, Critical(p))
    /\ UNCHANGED <<filters, RejectByDefault, seqvars>>

\* fs.mu.RLock(): taken at once unless a writer holds or awaits the lock,
\* and then the reader waits for that writer's Unlock.
DoRLock(p) ==
    /\ proc[p].pc = "RLock"
    /\ IF mu.w = 0
       THEN /\ mu' = [mu EXCEPT !.r = @ \cup {p}]
            /\ Goto(p, Critical(p))
       ELSE /\ mu' = [mu EXCEPT !.q = @ \cup {p}]
            /\ Goto(p, "rwait")
    /\ UNCHANGED <<filters, RejectByDefault, seqvars>>

\* fs.mu.RLock() returns to a reader that waited.
DoRWake(p) ==
    /\ proc[p].pc = "rwait"
    /\ p \in mu.r
    /\ Goto(p, Critical(p))
    /\ UNCHANGED <<filters, RejectByDefault, mu, seqvars>>

\* reject := fs.RejectByDefault and the loop over fs.filters.
Scan(p) ==
    /\ proc[p].pc = "scan"
    /\ Set(p, [proc[p] EXCEPT
                  !.pc = "RUnlock",
                  !.d = RejectByDefault,
                  !.res = scan(filters, 1, RejectByDefault, proc[p].a.ip)])
    /\ UNCHANGED <<filters, RejectByDefault, mu, seqvars>>

\* The loop of Filters / AllowFilters.
List(p) ==
    /\ proc[p].pc = "list"
    /\ Set(p, [proc[p] EXCEPT
                  !.pc = "RUnlock",
                  !.lst = IF proc[p].call = "Filters"
                          THEN Filters(filters).elems
                          ELSE AllowFilters(filters).elems])
    /\ UNCHANGED <<filters, RejectByDefault, mu, seqvars>>

\* defer fs.mu.RUnlock(), and the return.
DoRUnlock(p) ==
    /\ proc[p].pc = "RUnlock"
    /\ mu' = [mu EXCEPT !.r = @ \ {p}]
    /\ Set(p, Idle)
    /\ UNCHANGED <<filters, RejectByDefault, seqvars>>

\* f.RejectByDefault = b by the table's owner: a plain store to the
\* exported field, fs.mu not taken.
OwnerSetsDefault(b) ==
    /\ RejectByDefault' = b
    /\ UNCHANGED <<filters, mu, proc, seqvars>>

\* The steps of a call that is under way.
Step(p) ==
    \/ DoLock(p)
    \/ DoDrain(p)
    \/ AddBody(p)
    \/ RemoveFind(p)
    \/ RemoveStore(p)
    \/ DoUnlock(p)
    \/ Parse(p)
    \/ Return(p)
    \/ DoRLock(p)
    \/ DoRWake(p)
    \/ Scan(p)
    \/ List(p)
    \/ DoRUnlock(p)

Start(p) ==
    \/ \E f \in Nets : StartWrite(p, "AddDialFilter", f)
    \/ \E f \in Nets : StartAddDenyFilter(p, f)
    \/ \E f \in Nets : StartWrite(p, "AddAllowFilter", f)
    \/ \E f \in Nets : StartWrite(p, "Remove", f)
    \/ \E a \in Maddrs : StartAddrBlocked(p, a)
    \/ StartList(p, "Filters")
    \/ StartRejectFilters(p)
    \/ StartList(p, "AllowFilters")

\* Goroutines that call the methods of the table and do nothing else to it.
NextCalls ==
    \/ \E p \in Procs : Start(p)
    \/ \E p \in Procs : Step(p)

NextConc ==
    \/ NextCalls
    \/ \E b \in BOOLEAN : OwnerSetsDefault(b)

SpecConc == Init /\ [][NextConc]_vars

\* The scheduler runs every goroutine that can take a step, and the mutex
\* inside fs.mu hands itself to a writer that keeps waiting for it.
Fairness == \A p \in Procs : WF_vars(Step(p)) /\ SF_vars(DoLock(p))

SpecConcFair == Init /\ [][NextCalls]_vars /\ Fairness

----------------------------------------------------------------------------
(* The revisions in which Find is exported and locks fs.mu itself: the Add*  *)
(* calls append, Remove looks the network up through Find                   *)

\* func AddDialFilter / AddAllowFilter of these revisions is entered.
StartAppend(p, call, f) ==
    /\ proc[p].pc = "idle"
    /\ Len(filters) < MaxRules
    /\ Set(p, [Idle EXCEPT !.pc = "Lock", !.call = call, !.f = f])
    /\ UNCHANGED <<filters, RejectByDefault, mu, seqvars>>

\* fs.filters = append(fs.filters, &filterEntry{f: f, reject: ...})
AppendBody(p) ==
    /\ proc[p].pc = "body"
    /\ proc[p].call \in Adds
    /\ filters' = Append(filters, [f |-> proc[p].f,
                                   reject |-> proc[p].call = "AddDialFilter"])
    /\ Goto(p, "Unlock")
    /\ UNCHANGED <<RejectByDefault, mu, seqvars>>

\* func Remove of these revisions is entered; next is f.mu.Lock().
StartRemove(p, ff) ==
    /\ proc[p].pc = "idle"
    /\ Set(p, [Idle EXCEPT !.pc = "Lock", !.call = "Remove", !.f = ff])
    /\ UNCHANGED <<filters, RejectByDefault, mu, seqvars>>

\* func Find is entered by a caller of the package; next is f.mu.Lock().
StartFind(p, ff) ==
    /\ proc[p].pc = "idle"
    /\ Set(p, [Idle EXCEPT !.pc = "Find.Lock", !.call = "Find", !.f = ff])
    /\ UNCHANGED <<filters, RejectByDefault, mu, seqvars>>

\* Remove, holding the lock: f.Find(ff) is called.
RemoveCallsFind(p) ==
    /\ proc[p].pc = "body"
    /\ proc[p].call = "Remove"
    /\ Goto(p, "Find.Lock")
    /\ UNCHANGED <<filters, RejectByDefault, mu, seqvars>>

\* Find: f.mu.Lock(), first half; the mutex does not know its holder, so the
\* goroutine that holds it waits like any other.
FindLock(p) ==
    /\ proc[p].pc = "Find.Lock"
    /\ mu.w = 0
    /\ mu' = [mu EXCEPT !.w = p]
    /\ Goto(p, "Find.drain")
    /\ UNCHANGED <<filters, RejectByDefault, seqvars>>

\* Find: f.mu.Lock(), second half.
FindDrain(p) ==
    /\ proc[p].pc = "Find.drain"
    /\ mu.r = {}
    /\ Goto(p, "Find.body")
    /\ UNCHANGED <<filters, RejectByDefault, mu, seqvars>>

\* Find: the loop comparing ft.f.String() with ff.String().
FindBody(p) ==
    /\ proc[p].pc = "Find.body"
    /\ Set(p, [proc[p] EXCEPT !.pc = "Find.Unlock",
                              !.idx = find(filters, proc[p].f)])
    /\ UNCHANGED <<filters, RejectByDefault, mu, seqvars>>

\* Find: defer f.mu.Unlock() and the return of idx, to the caller of the
\* package or into the loop of Remove, which cuts the rule out and calls
\* Find again, or leaves when idx is -1.
FindUnlock(p) ==
    /\ proc[p].pc = "Find.Unlock"
    /\ mu' = [w |-> 0, r |-> mu.q, q |-> {}]
    /\ IF proc[p].call = "Find"
       THEN Set(p, Idle) /\ UNCHANGED filters
       ELSE IF proc[p].idx # -1
            THEN Goto(p, "body") /\ filters' = Cut(filters, proc[p].idx)
            ELSE Goto(p, "Unlock") /\ UNCHANGED filters
    /\ UNCHANGED <<RejectByDefault, seqvars>>

NextFind ==
    \/ \E p \in Procs, f \in Nets : StartAppend(p, "AddDialFilter", f)
    \/ \E p \in Procs, f \in Nets : StartAppend(p, "AddAllowFilter", f)
    \/ \E p \in Procs, f \in Nets : StartRemove(p, f)
    \/ \E p \in Procs, f \in Nets : StartFind(p, f)
    \/ \E p \in Procs : DoLock(p)
    \/ \E p \in Procs : DoDrain(p)
    \/ \E p \in Procs : AppendBody(p)
    \/ \E p \in Procs : RemoveCallsFind(p)
    \/ \E p \in Procs : FindLock(p)
    \/ \E p \in Procs : FindDrain(p)
    \/ \E p \in Procs : FindBody(p)
    \/ \E p \in Procs : FindUnlock(p)
    \/ \E p \in Procs : DoUnlock(p)

SpecFind == Init /\ [][NextFind]_vars

----------------------------------------------------------------------------
(* Shorthands of the properties *)

IPAddr(ip) == [kind |-> "ip", ip |-> ip]

Range(sq) == {sq[i] : i \in 1 .. Len(sq)}


Mutators == Adds \cup {"Remove"}

\* The positions of the rules whose network contains ip.
Matching(fl, ip) == {i \in 1 .. Len(fl) : Contains(fl[i].f, ip)}

Last(S) == CHOOSE i \in S : \A j \in S : j <= i

\* The positions of the rules stored for the same network text as ff.
Stored(fl, ff) == {i \in 1 .. Len(fl) : String(fl[i].f) = String(ff)}

----------------------------------------------------------------------------
\* C1: AddrBlocked of a parseable address returns the reject flag of the last
\* stored rule whose network contains it, whatever earlier or more specific
\* rules say, and RejectByDefault when no stored rule contains it.
C1_LastMatchWins ==
    (op.name = "AddrBlocked" /\ op.a.kind = "ip") =>
        LET M == Matching(filters, op.a.ip)
        IN  blocked = IF M = {} THEN RejectByDefault
                      ELSE filters[Last(M)].reject

\* An address with two matching rules of opposite actions, the earlier one
\* the more specific, has been evaluated.
C1_Witness ==
    /\ op.name = "AddrBlocked" /\ op.a.kind = "ip"
    /\ \E i, j \in Matching(filters, op.a.ip) :
          /\ i < j /\ j = Last(Matching(filters, op.a.ip))
          /\ filters[i].f.ones > filters[j].f.ones
          /\ filters[i].reject # filters[j].reject
          /\ filters[j].reject # RejectByDefault

\* C2: right after AddDialFilter(p) every address in p is blocked, and right
\* after AddAllowFilter(p) no address in p is blocked.
C2_LastAddedAuthoritative ==
    /\ op.name = "AddDialFilter" =>
          \A ip \in IPs : Contains(op.f, ip) => AddrBlocked(Table, IPAddr(ip))
    /\ op.name = "AddAllowFilter" =>
          \A ip \in IPs : Contains(op.f, ip) => ~AddrBlocked(Table, IPAddr(ip))

----------------------------------------------------------------------------
\* C3: after Remove(p) on a table built through the exported calls no rule
\* for p remains, p is in neither Filters() nor AllowFilters(), whatever the
\* removed rule's action was, and an address in p that no stored network
\* contains evaluates to RejectByDefault.
C3_RemoveLeavesNoRule ==
    op.name = "Remove" =>
        /\ Stored(filters, op.f) = {}
        /\ op.f \notin Range(Filters(filters).elems)
        /\ op.f \notin Range(AllowFilters(filters).elems)
        /\ \A ip \in IPs :
              (Contains(op.f, ip) /\ Matching(filters, ip) = {}) =>
                  AddrBlocked(Table, IPAddr(ip)) = RejectByDefault

\* An allow rule has been removed from a default-deny table that keeps
\* another rule, and an address of the removed network matches nothing now.
C3_Witness ==
    /\ op.name = "Remove"
    /\ \E i \in Stored(pre.filters, op.f) : ~pre.filters[i].reject
    /\ RejectByDefault
    /\ Len(filters) >= 1
    /\ \E ip \in IPs :
          /\ Contains(op.f, ip) /\ Matching(filters, ip) = {}
          /\ ~AddrBlocked(pre, IPAddr(ip))
          /\ AddrBlocked(Table, IPAddr(ip))

\* C4: one Remove(p) leaves no rule for p, also when the table held two or
\* more rules for p.
C4_RemoveStripsDuplicates ==
    (op.name = "Remove" /\ Cardinality(Stored(pre.filters, op.f)) >= 2) =>
        Stored(filters, op.f) = {}

C6_ParseFailureDefault ==
    /\ (op.name = "AddrBlocked" /\ op.a.kind # "ip") => blocked = RejectByDefault
    /\ \A a \in Maddrs : a.kind # "ip" => AddrBlocked(Table, a) = RejectByDefault

\* An address that does not reduce to an IP has been evaluated on a
\* default-deny table whose rules allow every address.
C6_Witness ==
    /\ op.name = "AddrBlocked" /\ op.a.kind = "dns"
    /\ RejectByDefault /\ blocked
    /\ filters # <<>>
    /\ \A ip \in IPs : ~AddrBlocked(Table, IPAddr(ip))

\* C7: Remove(p) with no rule stored for p changes neither the rules nor
\* RejectByDefault nor any address's evaluation.
C7_RemoveAbsentNoOp ==
    (op.name = "Remove" /\ Stored(pre.filters, op.f) = {}) =>
        /\ filters = pre.filters
        /\ RejectByDefault = pre.RejectByDefault
        /\ \A a \in Maddrs : AddrBlocked(Table, a) = AddrBlocked(pre, a)

\* Remove has been called for a network that is not stored while a stored
\* network contains it.
C7_Witness ==
    /\ op.name = "Remove"
    /\ Stored(pre.filters, op.f) = {}
    /\ \E i \in 1 .. Len(filters) : Contains(filters[i].f, op.f.IP)

\* C8: the table NewFilters returns has no rule and RejectByDefault false;
\* no address is blocked on it and both listings are empty.
C8_NewFiltersEmpty ==
    op.name = "NewFilters" =>
        /\ filters = <<>>
        /\ RejectByDefault = FALSE
        /\ \A a \in Maddrs : AddrBlocked(Table, a) = FALSE
        /\ Filters(filters).elems = <<>>
        /\ AllowFilters(filters).elems = <<>>

\* The table is as NewFilters returned it.
C8_Witness == op.name = "NewFilters" /\ pre = Table

\* The number of rules with action r among the first i.
Rank(fl, r, i) == Cardinality({j \in 1 .. i : fl[j].reject = r})

\* lst is the networks of the rules of fl with action r, in fl's order.
ListsExactly(lst, fl, r) ==
    /\ Len(lst) = Rank(fl, r, Len(fl))
    /\ \A i \in 1 .. Len(fl) : fl[i].reject = r => lst[Rank(fl, r, i)] = fl[i].f

\* C9: Filters() returns the networks of the reject rules and AllowFilters()
\* those of the allow rules, each in stored order; every stored rule is in
\* exactly one of the two, and Remove of a listed network deletes its rule.
C9_ListingsPartition ==
    /\ op.name = "Filters" => ListsExactly(out.elems, filters, TRUE)
    /\ op.name = "AllowFilters" => ListsExactly(out.elems, filters, FALSE)
    /\ \A i \in 1 .. Len(filters) :
          (filters[i].f \in Range(Filters(filters).elems))
              # (filters[i].f \in Range(AllowFilters(filters).elems))
    /\ Len(Filters(filters).elems) + Len(AllowFilters(filters).elems) = Len(filters)
    /\ (/\ op.name = "Remove"
        /\ op.f \in Range(Filters(pre.filters).elems)
                       \cup Range(AllowFilters(pre.filters).elems)) =>
          /\ Stored(filters, op.f) = {}
          /\ Len(filters) = Len(pre.filters) - 1

\* Filters() has skipped the allow rule stored first and returned the
\* network of the reject rule stored after it.
C9_Witness ==
    /\ op.name = "Filters"
    /\ Len(filters) = 2
    /\ ~filters[1].reject /\ filters[2].reject
    /\ out.elems = <<filters[2].f>>

\* C10: a slice Filters() or AllowFilters() returned reads the same after
\* any later AddDialFilter, AddAllowFilter or Remove.
C10_ListingIsSnapshot ==
    [][(op'.name \in Mutators /\ out.kind # "none") =>
          /\ out'.kind = out.kind
          /\ Contents(out', filters') = Contents(out, filters)]_vars

\* A network listed by an earlier Filters() has since been flipped to allow
\* and the slice still lists it.
C10_Witness ==
    /\ op.name = "AddAllowFilter"
    /\ out.kind = "deny"
    /\ op.f \in Range(Contents(out, filters))
    /\ op.f \notin Range(Filters(filters).elems)

----------------------------------------------------------------------------
Reads == {"AddrBlocked", "Filters", "AllowFilters"}

\* C11: AddrBlocked, Filters and AllowFilters leave the rules and
\* RejectByDefault as they were, and the same query made again on the table
\* they leave returns the same answer.
C11_ReadsHaveNoEffect ==
    /\ op.name \in Reads =>
          filters = pre.filters /\ RejectByDefault = pre.RejectByDefault
    /\ op.name = "AddrBlocked" => AddrBlocked(Table, op.a) = blocked
    /\ op.name = "Filters" => Filters(filters).elems = out.elems
    /\ op.name = "AllowFilters" => AllowFilters(filters).elems = out.elems

\* An address has been evaluated and a stored rule decided against the default.
C11_Witness ==
    /\ op.name = "AddrBlocked" /\ op.a.kind = "ip"
    /\ blocked # RejectByDefault

\* The action an Add call of that name stores.
ActionOf(name) == name = "AddDialFilter"

C17_AppendAtEnd ==
    (op.name \in Adds /\ Stored(pre.filters, op.f) = {}) =>
        /\ Len(filters) = Len(pre.filters) + 1
        /\ SubSeq(filters, 1, Len(pre.filters)) = pre.filters
        /\ filters[Len(filters)] = [f |-> op.f, reject |-> ActionOf(op.name)]
        /\ RejectByDefault = pre.RejectByDefault

\* A reject rule for a new network has been added to a table holding a rule.
C17_Witness ==
    /\ op.name = "AddDialFilter"
    /\ Len(pre.filters) = 1
    /\ Stored(pre.filters, op.f) = {}
    /\ Len(filters) = 2

\* The rules of fl stored for another network than ff, in fl's order.
Others(fl, ff) ==
    LET Other(e) == String(e.f) # String(ff) IN SelectSeq(fl, Other)

----------------------------------------------------------------------------
(* Concurrent calls *)

\* The goroutines between fs.mu.Lock() and fs.mu.Unlock().
Writing == {p \in Procs : proc[p].pc \in {"body", "store", "Unlock"}}

\* The goroutines between fs.mu.RLock() and fs.mu.RUnlock().
Reading == {p \in Procs : proc[p].pc \in {"scan", "list", "RUnlock"}}

\* C12: in every reachable state of concurrent calls at most one of
\* AddDialFilter, AddAllowFilter and Remove is inside its critical section,
\* and while one is, no AddrBlocked scan, Filters or AllowFilters is inside
\* its own.
C12_MutualExclusion ==
    /\ Cardinality(Writing) <= 1
    /\ Writing # {} => Reading = {}

\* A Remove is half way through its critical section while a second writer
\* waits for the lock.
C12_Witness ==
    \E p, q \in Procs :
        /\ proc[p].pc = "store"
        /\ proc[q].pc = "Lock"
        /\ proc[q].call \in Adds

\* The AddrBlocked calls that have read fs.RejectByDefault and not returned.
Deciding ==
    {p \in Procs : proc[p].call = "AddrBlocked"
                   /\ proc[p].pc \in {"RUnlock", "return"}}

\* C13: the default action is guarded by the lock of the rule sequence:
\* AddrBlocked reads RejectByDefault only while it holds the lock, on the
\* paths of an address that does not parse too, and the default is not
\* written between an AddrBlocked call's read of it and the call's return.
C13_DefaultUnderLock ==
    \A p \in Deciding :
        /\ p \in mu.r
        /\ proc[p].d = RejectByDefault

\* What the call of goroutine p returns when run alone on the table as it
\* is, with the default action p read.
Sequential(p) ==
    CASE proc[p].call = "AddrBlocked" ->
             AddrBlocked([filters |-> filters,
                          RejectByDefault |-> proc[p].d], proc[p].a)
      [] proc[p].call = "Filters" -> Filters(filters).elems
      [] OTHER -> AllowFilters(filters).elems

\* What the call of goroutine p is about to return.
Returned(p) ==
    IF proc[p].call = "AddrBlocked" THEN proc[p].res ELSE proc[p].lst

\* C14: mutations are atomic to readers: no AddrBlocked, Filters or
\* AllowFilters is inside its critical section while a Remove has moved the
\* rules and not yet stored the shortened sequence, and every such call
\* returns what the sequential operation returns on the table between two
\* complete mutations.
C14_MutationsAtomicToReaders ==
    /\ Reading # {} => \A q \in Procs : proc[q].pc # "store"
    /\ \A p \in Procs :
           proc[p].pc \in {"RUnlock", "return"} => Returned(p) = Sequential(p)

\* An AddrBlocked that a rule decided against the default is about to
\* return while a Remove waits for it to release the lock.
C14_Witness ==
    \E p, q \in Procs :
        /\ proc[p].pc = "RUnlock"
        /\ proc[p].call = "AddrBlocked"
        /\ proc[p].res # proc[p].d
        /\ proc[q].pc = "drain"
        /\ proc[q].call = "Remove"
        /\ find(filters, proc[q].f) # -1

\* A goroutine that is not between acquiring and releasing holds nothing.
NoReentry ==
    \A p \in Procs :
        proc[p].pc \in {"idle", "Lock", "parse", "RLock", "return"}
            => mu.w # p /\ p \notin mu.r /\ p \notin mu.q

\* While a call is under way some call can take a step.
NoDeadlock ==
    (\E p \in Procs : proc[p].pc # "idle") => \E p \in Procs : ENABLED Step(p)

\* C15: no operation blocks indefinitely: a call never acquires the lock
\* while it holds it and holds nothing once it has returned, no state of
\* calls under way is a deadlock, and under fair hand-off of the lock every
\* started call returns.
C15_EveryCallReturns ==
    /\ []NoReentry
    /\ []NoDeadlock
    /\ \A p \in Procs : (proc[p].pc # "idle") ~> (proc[p].pc = "idle")

\* A reader waits for the writer that is about to unlock.
C15_Witness ==
    \E p, q \in Procs :
        /\ proc[p].pc = "rwait"
        /\ proc[q].pc = "Unlock"
        /\ mu.w = q

----------------------------------------------------------------------------
(* Round trip *)

\* C21: on a reachable table that holds no rule for p, AddDialFilter(p) or
\* AddAllowFilter(p) followed by Remove(p) restores the rule sequence and
\* the default action, so AddrBlocked answers every address as before.
C21_AddRemoveRoundTrip ==
    [][(/\ op.name \in Adds
        /\ find(pre.filters, op.f) = -1
        /\ op'.name = "Remove"
        /\ String(op'.f) = String(op.f))
       => /\ filters' = pre.filters
          /\ RejectByDefault' = pre.RejectByDefault
          /\ \A a \in Maddrs :
                AddrBlocked([filters |-> filters',
                             RejectByDefault |-> RejectByDefault'], a)
                    = AddrBlocked(pre, a)]_vars

\* Remove has taken the last rule out of a table of two rules, and an
\* address it covered is answered by the rule that stays.
C21_Witness ==
    /\ op.name = "Remove"
    /\ Len(pre.filters) = 2
    /\ find(pre.filters, op.f) = 1
    /\ filters = <<pre.filters[1]>>
    /\ \E ip \in IPs :
          /\ Contains(op.f, ip)
          /\ AddrBlocked(pre, IPAddr(ip)) # AddrBlocked(Table, IPAddr(ip))

----------------------------------------------------------------------------
(* Remove through the exported Find *)

\* C22: in the revisions where Remove takes the write lock and looks the
\* network up through the exported Find, a Remove never waits for a lock it
\* holds itself, whether or not a rule for the network is stored.
C22_RemoveNeverWaitsForItself ==
    \A p \in Procs :
        (proc[p].call = "Remove" /\ proc[p].pc = "Find.Lock") => mu.w # p

====
